---- MODULE Spec2Model ----
(***************************************************************************)
(* State-machine model of the Remote Ready front end:                      *)
(*   - ThemeProvider (components/theme-provider): the display preference,  *)
(*     its resolution against the ambient colour scheme, the root          *)
(*     element's class list and the persisted "theme" key;                 *)
(*   - ResumeJobMatcher (app/page.tsx): upload and manual-search requests, *)
(*     the filter builder and the notifications.                           *)
(* JavaScript strings that the code only compares are TLA+ strings;        *)
(* strings the code trims are sequences of one-character strings.          *)
(***************************************************************************)
EXTENDS Integers, Sequences, FiniteSets, TLC

VARIABLES
    \* ---- ThemeProvider ----
    defaultTheme,    \* prop defaultTheme
    theme,           \* useState<Theme>(defaultTheme)
    resolvedTheme,   \* useState<"dark" | "light">("light")
    classList,       \* window.document.documentElement.classList
    storage,         \* localStorage["theme"], null when the key is absent
    prefersDark,     \* matchMedia("(prefers-color-scheme: dark)").matches
    mounted,         \* the mount effects of ThemeProvider have run
    effectDue,       \* the [theme, attribute] effect is scheduled
    \* ---- ResumeJobMatcher ----
    isLoading,
    uploadProgress,
    jobs,
    resumeInfo,
    error,
    success,
    selectedFile,
    searchFilters,
    currentInput,
    currentInputType,
    upload,          \* the /parse-resume request of handleFileUpload
    search,          \* the /search-jobs request of handleManualSearch
    health,          \* the /health request of checkApiHealth
    data,            \* the body last parsed by response.json()
    intervals,       \* live setInterval progress timers
    timeouts,        \* pending setTimeout(() => setUploadProgress(0), 1000)
    sortBy,          \* the value of the sort select
    filterTags,      \* the filter tag list
    expandedJobs,    \* the indices of the job cards shown with their details
    downloads        \* the documents handed to the browser as jobs.csv

themeVars == <<defaultTheme, theme, resolvedTheme, classList, storage,
               prefersDark, mounted, effectDue>>

filterVars == <<searchFilters, currentInput, currentInputType>>

pageVars == <<isLoading, uploadProgress, jobs, resumeInfo, error, success,
              selectedFile, upload, search, health, data, intervals, timeouts>>

viewVars == <<sortBy, filterTags, expandedJobs, downloads>>

vars == <<themeVars, filterVars, pageVars, viewVars>>

\* JavaScript null (an absent value).
null == "null"

(***************************************************************************)
(* ThemeProvider                                                           *)
(***************************************************************************)

\* type Theme = "dark" | "light" | "system"
Theme == {"dark", "light", "system"}

\* The type of resolvedTheme: "dark" | "light".
ResolvedThemes == {"dark", "light"}

\* The attribute prop, at its declared default.
attribute == "class"

\* What localStorage may hold under "theme" when the page starts: nothing, the
\* empty string, a Theme, or any other string an earlier version or the user
\* left there.
PersistedValues == {null, "", "dark", "light", "system", "purple"}

\* JavaScript truthiness of the string-or-null returned by getItem.
Truthy(s) == s # null /\ s # ""

\* effectiveTheme of the [theme, attribute] effect.
EffectiveTheme(t, dark) ==
    IF t = "system" THEN (IF dark THEN "dark" ELSE "light") ELSE t

\* root.classList.remove("light", "dark") without the removal: a mutant.
ClassListKeep(cl, t, dark) ==
    IF attribute = "class" THEN cl \cup {EffectiveTheme(t, dark)} ELSE cl

\* root.classList after the effect: remove("light", "dark"), then add the
\* effective theme when attribute is "class".
EffectClassList(cl, t, dark) ==
    LET removed == cl \ {"light", "dark"}
    IN  IF attribute = "class" THEN removed \cup {EffectiveTheme(t, dark)}
        ELSE removed

\* The load effect: setTheme(savedTheme) when savedTheme is truthy.
LoadedTheme(saved, current) ==
    IF Truthy(saved) THEN saved ELSE current

InitTheme ==
    /\ defaultTheme \in Theme
    /\ theme = defaultTheme
    /\ resolvedTheme = "light"
    /\ classList = {}
    /\ storage \in PersistedValues
    /\ prefersDark \in BOOLEAN
    /\ mounted = FALSE
    /\ effectDue = FALSE

\* The first commit: both effects run in order with theme = defaultTheme; the
\* setTheme of the load effect takes effect in the render that follows.
MountEffects ==
    /\ ~mounted
    /\ mounted' = TRUE
    /\ classList' = EffectClassList(classList, theme, prefersDark)
    /\ resolvedTheme' = EffectiveTheme(theme, prefersDark)
    /\ theme' = LoadedTheme(storage, theme)
    /\ storage' = theme
    /\ effectDue' = (theme' # theme)
    /\ UNCHANGED <<defaultTheme, prefersDark>>
    /\ UNCHANGED <<filterVars, pageVars, viewVars>>

\* The [theme, attribute] effect after a render in which theme changed.
ThemeEffect ==
    /\ mounted
    /\ effectDue
    /\ classList' = EffectClassList(classList, theme, prefersDark)
    /\ resolvedTheme' = EffectiveTheme(theme, prefersDark)
    /\ storage' = theme
    /\ effectDue' = FALSE
    /\ UNCHANGED <<defaultTheme, theme, prefersDark, mounted>>
    /\ UNCHANGED <<filterVars, pageVars, viewVars>>

\* setTheme(t) from an event handler. React flushes the passive effects of the
\* previous render before it renders the update.
SetTheme(t) ==
    /\ mounted
    /\ IF effectDue
       THEN /\ classList' = EffectClassList(classList, theme, prefersDark)
            /\ resolvedTheme' = EffectiveTheme(theme, prefersDark)
            /\ storage' = theme
       ELSE UNCHANGED <<classList, resolvedTheme, storage>>
    /\ theme' = t
    /\ effectDue' = (t # theme)
    /\ UNCHANGED <<defaultTheme, prefersDark, mounted>>
    /\ UNCHANGED <<filterVars, pageVars, viewVars>>

\* The header button: setTheme(resolvedTheme === "dark" ? "light" : "dark").
ToggleTheme ==
    SetTheme(IF resolvedTheme = "dark" THEN "light" ELSE "dark")

\* The user or the operating system changes the ambient colour scheme.
AmbientChange ==
    /\ prefersDark' = ~prefersDark
    /\ UNCHANGED <<defaultTheme, theme, resolvedTheme, classList, storage,
                   mounted, effectDue>>
    /\ UNCHANGED <<filterVars, pageVars, viewVars>>

\* No effect of ThemeProvider is outstanding.
ThemeSettled == mounted /\ ~effectDue

(***************************************************************************)
(* ResumeJobMatcher: data                                                  *)
(***************************************************************************)

\* The user-visible messages.
MsgNoFile == "Please select a file to upload"
MsgNotPdf == "Please upload a PDF file only"
MsgTooLarge == "File size must be less than 10MB"
MsgNoCriteria == "Please add at least one search criteria"
MsgParseFailed == "Failed to parse resume"
MsgSearchFailed == "Failed to search jobs"
MsgParsed == "Resume parsed successfully!"
MsgSearched == "Job search completed!"
MsgHealthStatus ==
    "API server is not responding. Please ensure the backend is running on http://localhost:8000"
MsgHealthNetwork ==
    "Cannot connect to API server. Please ensure the backend is running on http://localhost:8000"
\* err.message of the TypeError a rejected fetch carries, and of the
\* SyntaxError a rejected response.json() carries.
MsgFetchRejected == "Failed to fetch"
MsgJsonRejected == "Unexpected token < in JSON at position 0"

\* The cap on selectedFile.size: 10 * 1024 * 1024.
MaxFileSize == 10 * 1024 * 1024

PdfType == "application/pdf"

\* selectedFile is null or a File; a File is modelled by its type and size.
NoFile == <<>>
FileOf(type, size) == <<[type |-> type, size |-> size]>>

FileTypes == {PdfType, "text/plain"}
FileSizes == {MaxFileSize, MaxFileSize + 1}
Files == {FileOf(t, s) : t \in FileTypes, s \in FileSizes}

\* Job records. A string is a sequence of characters; relevance_score is in
\* thousandths (900 is 0.9); apply_url and description are never read by the
\* handlers modelled here.
JobA ==
    [position |-> <<"A">>, company |-> <<"X">>,
     salary |-> <<"$", "5", "0", ",", "0", "0", "0">>,
     location |-> <<"U", "S">>,
     tags |-> << <<"P", "y", "t", "h", "o", "n">> >>,
     date_posted |-> <<"2", "0", "2", "4", "-", "0", "3", "-", "0", "1">>,
     relevance_score |-> 900,
     matched_keywords |-> << <<"s", "q", "l">> >>]
JobB ==
    [position |-> <<"B">>, company |-> <<"Y">>,
     salary |-> <<"a", "b", "c">>,
     location |-> <<>>,
     tags |-> << <<"R", "u", "s", "t">>, <<"G", "o">> >>,
     date_posted |-> <<"2", "0", "2", "4", "-", "0", "3", "-", "1", "5">>,
     relevance_score |-> 300,
     matched_keywords |-> <<>>]
JobC ==
    [position |-> <<"C">>, company |-> <<"X">>,
     salary |-> <<"$", "1", "2", "0", ",", "0", "0", "0">>,
     location |-> <<"U", "S">>,
     tags |-> <<>>,
     date_posted |-> <<"2", "0", "2", "4", "-", "0", "3", "-", "0", "1">>,
     relevance_score |-> 900,
     matched_keywords |-> << <<"P", "Y", "T", "H", "O", "N">> >>]
JobD ==
    [position |-> <<"D">>, company |-> <<"Z">>,
     salary |-> <<"5", "0", "0", "0", "0", " ", "U", "S", "D">>,
     location |-> <<"E", "U">>,
     tags |-> <<>>,
     date_posted |-> <<"2", "0", "2", "3", "-", "1", "2", "-", "3", "1">>,
     relevance_score |-> 100,
     matched_keywords |-> <<>>]
\* A job whose company holds a double quote and whose location a line break.
JobE ==
    [position |-> <<"E">>, company |-> <<"W", "\"", "W">>,
     salary |-> <<>>,
     location |-> <<"E", "U", "\n", "U", "S">>,
     tags |-> << <<"G", "o">> >>,
     date_posted |-> <<"2", "0", "2", "4", "-", "0", "1", "-", "0", "1">>,
     relevance_score |-> 284,
     matched_keywords |-> << <<"g", "o">> >>]
JobLists == {<<JobA>>, <<JobB, JobA>>}

\* Resume profiles, by identity.
Resumes == {"R1", "R2"}

\* A parsed response body: the optional fields jobs and resume_info.
Body(from, hasJobs, list, resume) ==
    [from |-> from, hasJobs |-> hasJobs, jobs |-> list, resume_info |-> resume]
NoData == Body("none", FALSE, <<>>, null)
UploadBodies ==
    {Body("upload", FALSE, <<>>, r) : r \in Resumes \cup {null}}
    \cup {Body("upload", TRUE, l, r) : l \in JobLists, r \in Resumes \cup {null}}
SearchBodies ==
    {Body("search", FALSE, <<>>, null)}
    \cup {Body("search", TRUE, l, null) : l \in JobLists}

\* data.jobs || []
JobsOf(d) == IF d.hasJobs THEN d.jobs ELSE <<>>
\* data.resume_info || null
ResumeOf(d) == d.resume_info

\* The four criteria sequences of SearchFilters.
CriteriaKeys == {"skills", "technologies", "job_titles", "industries"}

\* Strings that are trimmed are sequences of characters.
Whitespace == {" "}

RECURSIVE TrimStart(_)
TrimStart(s) ==
    IF s # <<>> /\ Head(s) \in Whitespace THEN TrimStart(Tail(s)) ELSE s

RECURSIVE TrimEnd(_)
TrimEnd(s) ==
    IF s # <<>> /\ s[Len(s)] \in Whitespace
    THEN TrimEnd(SubSeq(s, 1, Len(s) - 1))
    ELSE s

\* String.prototype.trim
Trim(s) == TrimEnd(TrimStart(s))

\* Array.prototype.includes
Includes(seq, v) == \E i \in 1..Len(seq) : seq[i] = v

\* The filter test inverted, (item) => item === value: a mutant.
KeepMatches(seq, v) == SelectSeq(seq, LAMBDA item : item = v)

\* Array.prototype.filter((item) => item !== value)
RECURSIVE Without(_, _)
Without(seq, v) ==
    IF seq = <<>> THEN <<>>
    ELSE IF Head(seq) = v THEN Without(Tail(seq), v)
    ELSE <<Head(seq)>> \o Without(Tail(seq), v)

\* The sequence with its i-th element removed.
RemoveAt(seq, i) == SubSeq(seq, 1, i - 1) \o SubSeq(seq, i + 1, Len(seq))

Min(a, b) == IF a < b THEN a ELSE b

(***************************************************************************)
(* ResumeJobMatcher: state and handlers                                    *)
(***************************************************************************)

InitPage ==
    /\ isLoading = FALSE
    /\ uploadProgress = 0
    /\ jobs = <<>>
    /\ resumeInfo = null
    /\ error = null
    /\ success = null
    /\ selectedFile = NoFile
    /\ searchFilters = [skills |-> <<>>, technologies |-> <<>>,
                        job_titles |-> <<>>, industries |-> <<>>, limit |-> 20]
    /\ currentInput = <<>>
    /\ currentInputType = "skills"
    /\ upload = <<>>
    /\ search = <<>>
    /\ health = "fetch"
    /\ data = NoData
    /\ intervals = 0
    /\ timeouts = 0
    /\ sortBy = "relevance_score"
    /\ filterTags = <<>>
    /\ expandedJobs = {}
    /\ downloads = <<>>

\* checkApiHealth once its fetch has settled.
HealthSettles(outcome) ==
    /\ health = "fetch"
    /\ health' = "done"
    /\ error' = CASE outcome = "ok" -> error
                  [] outcome = "http_error" -> MsgHealthStatus
                  [] OTHER -> MsgHealthNetwork
    /\ UNCHANGED <<isLoading, uploadProgress, jobs, resumeInfo, success,
                   selectedFile, upload, search, data, intervals, timeouts>>
    /\ UNCHANGED <<themeVars, filterVars, viewVars>>

\* onChange of the file input and handleDrop: setSelectedFile.
SelectFile(f) ==
    /\ selectedFile' = f
    /\ UNCHANGED <<isLoading, uploadProgress, jobs, resumeInfo, error, success,
                   upload, search, health, data, intervals, timeouts>>
    /\ UNCHANGED <<themeVars, filterVars, viewVars>>

\* The validations with the size test off by one (>= for >): a mutant.
UploadValidationInclusive(f) ==
    IF f = NoFile THEN MsgNoFile
    ELSE IF f[1].type # PdfType THEN MsgNotPdf
    ELSE IF f[1].size >= MaxFileSize THEN MsgTooLarge
    ELSE null

\* The first validation of handleFileUpload that fails, as its message; null
\* when the file passes all three.
UploadValidation(f) ==
    IF f = NoFile THEN MsgNoFile
    ELSE IF f[1].type # PdfType THEN MsgNotPdf
    ELSE IF f[1].size > MaxFileSize THEN MsgTooLarge
    ELSE null

\* handleFileUpload up to its await: the validations, then the request.
HandleFileUpload ==
    /\ IF UploadValidation(selectedFile) # null
       THEN /\ error' = UploadValidation(selectedFile)
            /\ UNCHANGED <<isLoading, uploadProgress, upload, intervals>>
       ELSE /\ isLoading' = TRUE
            /\ error' = null
            /\ uploadProgress' = 0
            /\ intervals' = intervals + 1
            /\ upload' = Append(upload, "fetch")
    /\ UNCHANGED <<jobs, resumeInfo, success, selectedFile, search, health,
                   data, timeouts>>
    /\ UNCHANGED <<themeVars, filterVars, viewVars>>

\* An updater that stops at 100 instead of 90: a mutant.
TickedToHundred(prev) == Min(prev + 10, 100)

\* (prev) => Math.min(prev + 10, 90)
Ticked(prev) == Min(prev + 10, 90)

\* The progress timer fires: setUploadProgress((prev) => Math.min(prev + 10, 90)).
ProgressTick ==
    /\ intervals > 0
    /\ uploadProgress' = Ticked(uploadProgress)
    /\ UNCHANGED <<isLoading, jobs, resumeInfo, error, success, selectedFile,
                   upload, search, health, data, intervals, timeouts>>
    /\ UNCHANGED <<themeVars, filterVars, viewVars>>

\* The timeout of the finally block fires: setUploadProgress(0).
ProgressReset ==
    /\ timeouts > 0
    /\ timeouts' = timeouts - 1
    /\ uploadProgress' = 0
    /\ UNCHANGED <<isLoading, jobs, resumeInfo, error, success, selectedFile,
                   upload, search, health, data, intervals>>
    /\ UNCHANGED <<themeVars, filterVars, viewVars>>

\* A finally block that runs only when the try block completed: a mutant.
LoadingAfterSuccessOnly(failed) == IF failed THEN isLoading ELSE FALSE

\* setIsLoading(false) of the finally blocks, which run whether the try block
\* completed or threw.
LoadingAfter(failed) == FALSE

\* handleFileUpload from the await of fetch on. A rejected fetch goes to the
\* catch block at once; a response clears the timer and sets the progress to
\* 100, and a non-success status throws.
UploadFetchSettles(i, outcome) ==
    /\ i \in 1..Len(upload)
    /\ upload[i] = "fetch"
    /\ CASE outcome = "network_error" ->
              /\ error' = MsgFetchRejected
              /\ isLoading' = LoadingAfter(TRUE)
              /\ timeouts' = timeouts + 1
              /\ upload' = RemoveAt(upload, i)
              /\ UNCHANGED <<uploadProgress, intervals>>
         [] outcome = "http_error" ->
              /\ intervals' = intervals - 1
              /\ uploadProgress' = 100
              /\ error' = MsgParseFailed
              /\ isLoading' = LoadingAfter(TRUE)
              /\ timeouts' = timeouts + 1
              /\ upload' = RemoveAt(upload, i)
         [] OTHER ->
              /\ intervals' = intervals - 1
              /\ uploadProgress' = 100
              /\ upload' = [upload EXCEPT ![i] = "json"]
              /\ UNCHANGED <<error, isLoading, timeouts>>
    /\ UNCHANGED <<jobs, resumeInfo, success, selectedFile, search, health, data>>
    /\ UNCHANGED <<themeVars, filterVars, viewVars>>

\* setResumeInfo(data.resume_info || null) of the upload's success path.
UploadResume(d, current) == ResumeOf(d)

\* The job list merged with the response instead of replaced: a mutant.
NewJobsMerged(d, current) == current \o JobsOf(d)

\* setJobs(data.jobs || []) of both success paths.
NewJobs(d, current) == JobsOf(d)

\* handleFileUpload from the await of response.json() on: the body replaces
\* the job list and the resume profile.
UploadJsonSettles(i, body) ==
    /\ i \in 1..Len(upload)
    /\ upload[i] = "json"
    /\ data' = body
    /\ jobs' = NewJobs(body, jobs)
    /\ resumeInfo' = UploadResume(body, resumeInfo)
    /\ success' = MsgParsed
    /\ isLoading' = LoadingAfter(FALSE)
    /\ timeouts' = timeouts + 1
    /\ upload' = RemoveAt(upload, i)
    /\ UNCHANGED <<uploadProgress, error, selectedFile, search, health, intervals>>
    /\ UNCHANGED <<themeVars, filterVars, viewVars>>

\* response.json() rejects: the catch block, then the finally block.
UploadJsonRejects(i) ==
    /\ i \in 1..Len(upload)
    /\ upload[i] = "json"
    /\ error' = MsgJsonRejected
    /\ isLoading' = LoadingAfter(TRUE)
    /\ timeouts' = timeouts + 1
    /\ upload' = RemoveAt(upload, i)
    /\ UNCHANGED <<uploadProgress, jobs, resumeInfo, success, selectedFile,
                   search, health, data, intervals>>
    /\ UNCHANGED <<themeVars, filterVars, viewVars>>

\* The test of handleManualSearch: every criteria sequence is empty.
NoCriteria(f) ==
    /\ Len(f.skills) = 0
    /\ Len(f.technologies) = 0
    /\ Len(f.job_titles) = 0
    /\ Len(f.industries) = 0

\* handleManualSearch up to its await.
HandleManualSearch ==
    /\ IF NoCriteria(searchFilters)
       THEN /\ error' = MsgNoCriteria
            /\ UNCHANGED <<isLoading, search>>
       ELSE /\ isLoading' = TRUE
            /\ error' = null
            /\ search' = Append(search, "fetch")
    /\ UNCHANGED <<uploadProgress, jobs, resumeInfo, success, selectedFile,
                   upload, health, data, intervals, timeouts>>
    /\ UNCHANGED <<themeVars, filterVars, viewVars>>

\* handleManualSearch from the await of fetch on.
SearchFetchSettles(i, outcome) ==
    /\ i \in 1..Len(search)
    /\ search[i] = "fetch"
    /\ CASE outcome = "network_error" ->
              /\ error' = MsgFetchRejected
              /\ isLoading' = LoadingAfter(TRUE)
              /\ search' = RemoveAt(search, i)
         [] outcome = "http_error" ->
              /\ error' = MsgSearchFailed
              /\ isLoading' = LoadingAfter(TRUE)
              /\ search' = RemoveAt(search, i)
         [] OTHER ->
              /\ search' = [search EXCEPT ![i] = "json"]
              /\ UNCHANGED <<error, isLoading>>
    /\ UNCHANGED <<uploadProgress, jobs, resumeInfo, success, selectedFile,
                   upload, health, data, intervals, timeouts>>
    /\ UNCHANGED <<themeVars, filterVars, viewVars>>

\* A search that sets the resume profile as the upload does: a mutant.
SearchResumeReplaced(d, current) == ResumeOf(d)

\* The resume profile after a successful search: the code does not set it.
SearchResume(d, current) == current

\* handleManualSearch from the await of response.json() on: the body replaces
\* the job list.
SearchJsonSettles(i, body) ==
    /\ i \in 1..Len(search)
    /\ search[i] = "json"
    /\ data' = body
    /\ jobs' = NewJobs(body, jobs)
    /\ resumeInfo' = SearchResume(body, resumeInfo)
    /\ success' = MsgSearched
    /\ isLoading' = LoadingAfter(FALSE)
    /\ search' = RemoveAt(search, i)
    /\ UNCHANGED <<uploadProgress, error, selectedFile, upload, health,
                   intervals, timeouts>>
    /\ UNCHANGED <<themeVars, filterVars, viewVars>>

SearchJsonRejects(i) ==
    /\ i \in 1..Len(search)
    /\ search[i] = "json"
    /\ error' = MsgJsonRejected
    /\ isLoading' = LoadingAfter(TRUE)
    /\ search' = RemoveAt(search, i)
    /\ UNCHANGED <<uploadProgress, jobs, resumeInfo, success, selectedFile,
                   upload, health, data, intervals, timeouts>>
    /\ UNCHANGED <<themeVars, filterVars, viewVars>>

\* The close buttons of the two notifications.
DismissError ==
    /\ error # null
    /\ error' = null
    /\ UNCHANGED <<isLoading, uploadProgress, jobs, resumeInfo, success,
                   selectedFile, upload, search, health, data, intervals, timeouts>>
    /\ UNCHANGED <<themeVars, filterVars, viewVars>>

\* A close button that clears both notifications: a mutant.
DismissBoth ==
    /\ success # null
    /\ success' = null
    /\ error' = null
    /\ UNCHANGED <<isLoading, uploadProgress, jobs, resumeInfo,
                   selectedFile, upload, search, health, data, intervals, timeouts>>
    /\ UNCHANGED <<themeVars, filterVars, viewVars>>

DismissSuccess ==
    /\ success # null
    /\ success' = null
    /\ UNCHANGED <<isLoading, uploadProgress, jobs, resumeInfo, error,
                   selectedFile, upload, search, health, data, intervals, timeouts>>
    /\ UNCHANGED <<themeVars, filterVars, viewVars>>

\* The upload button without the loading flag in its disabled attribute: a
\* mutant.
UploadDisabledNoFileOnly == selectedFile = NoFile

\* The search button disabled by a flag of its own request only: a mutant.
SearchDisabledOwnRequest == search # <<>>

\* The disabled attribute of the two submit buttons.
UploadDisabled == selectedFile = NoFile \/ isLoading

SearchDisabled == isLoading

\* A click on an enabled button runs its handler.
ClickUpload == ~UploadDisabled /\ HandleFileUpload
ClickSearch == ~SearchDisabled /\ HandleManualSearch

(***************************************************************************)
(* Filter builder                                                          *)
(***************************************************************************)

\* onChange of a criteria input.
TypeInput(type, text) ==
    /\ currentInputType' = type
    /\ currentInput' = text
    /\ UNCHANGED searchFilters
    /\ UNCHANGED <<themeVars, pageVars, viewVars>>

\* The duplicate test made on the untrimmed value: a mutant.
AddedRawTest(seq, value) ==
    IF Trim(value) # <<>> /\ ~Includes(seq, value)
    THEN Append(seq, Trim(value))
    ELSE seq

\* The criteria sequence after addToSearchFilter(type, value).
Added(seq, value) ==
    IF Trim(value) # <<>> /\ ~Includes(seq, Trim(value))
    THEN Append(seq, Trim(value))
    ELSE seq

\* addToSearchFilter(type, value); Array.isArray holds of the four criteria keys.
AddToSearchFilter(type, value) ==
    /\ searchFilters' =
         IF type \in CriteriaKeys
         THEN [searchFilters EXCEPT ![type] = Added(searchFilters[type], value)]
         ELSE searchFilters
    /\ currentInput' = <<>>
    /\ UNCHANGED currentInputType
    /\ UNCHANGED <<themeVars, pageVars, viewVars>>

\* The Add button, disabled unless the typed text is non-blank and belongs to
\* this input.
ClickAdd(type) ==
    /\ Trim(currentInput) # <<>>
    /\ currentInputType = type
    /\ AddToSearchFilter(type, currentInput)

\* The Enter key in a criteria input.
PressEnter(type) ==
    /\ Trim(currentInput) # <<>>
    /\ AddToSearchFilter(type, currentInput)

\* removeFromSearchFilter(type, value).
RemoveFromSearchFilter(type, value) ==
    /\ searchFilters' = [searchFilters EXCEPT ![type] = Without(searchFilters[type], value)]
    /\ UNCHANGED <<currentInput, currentInputType>>
    /\ UNCHANGED <<themeVars, pageVars, viewVars>>

\* The remove button of a displayed criteria value.
ClickRemove(type, i) ==
    /\ i \in 1..Len(searchFilters[type])
    /\ RemoveFromSearchFilter(type, searchFilters[type][i])

(***************************************************************************)
(* Results view: sorting                                                   *)
(***************************************************************************)

\* The values of the sort select.
SortKeys == {"relevance_score", "date_posted", "salary"}

\* NaN; a number n that is not NaN is <<n>>.
NaN == <<>>

Digits == <<"0", "1", "2", "3", "4", "5", "6", "7", "8", "9">>
IsDigit(c) == \E n \in 1..Len(Digits) : Digits[n] = c
DigitValue(c) == (CHOOSE n \in 1..Len(Digits) : Digits[n] = c) - 1

\* The number written by a sequence of digits.
RECURSIVE DigitsValue(_)
DigitsValue(s) ==
    IF s = <<>> THEN 0
    ELSE DigitsValue(SubSeq(s, 1, Len(s) - 1)) * 10 + DigitValue(s[Len(s)])

\* String.prototype.replace(/[^0-9]/g, "")
StripNonDigits(s) == SelectSeq(s, IsDigit)

\* Number.parseInt of a string of digits: NaN when it is empty.
ParseInt(s) == IF s = <<>> THEN NaN ELSE <<DigitsValue(s)>>

\* n || 0
OrZero(n) == IF n = NaN \/ n = <<0>> THEN 0 ELSE n[1]

\* Number.parseInt(job.salary.replace(/[^0-9]/g, "")) || 0
SalaryOf(job) == OrZero(ParseInt(StripNonDigits(job.salary)))

\* new Date(s).getTime() of a date written YYYY-MM-DD, as a count of days
\* that grows with the timestamp; NaN for any other string.
DateTime(s) ==
    IF /\ Len(s) = 10
       /\ s[5] = "-" /\ s[8] = "-"
       /\ \A n \in {1, 2, 3, 4, 6, 7, 9, 10} : IsDigit(s[n])
       /\ DigitsValue(SubSeq(s, 6, 7)) \in 1..12
       /\ DigitsValue(SubSeq(s, 9, 10)) \in 1..31
    THEN <<DigitsValue(SubSeq(s, 1, 4)) * 372
           + (DigitsValue(SubSeq(s, 6, 7)) - 1) * 31
           + DigitsValue(SubSeq(s, 9, 10)) - 1>>
    ELSE NaN

\* x - y on numbers that may be NaN.
Minus(x, y) == IF x = NaN \/ y = NaN THEN NaN ELSE <<x[1] - y[1]>>

\* The comparator given to sort.
Compare(a, b, key) ==
    CASE key = "relevance_score" -> <<b.relevance_score - a.relevance_score>>
      [] key = "date_posted" -> Minus(DateTime(b.date_posted), DateTime(a.date_posted))
      [] key = "salary" -> <<SalaryOf(b) - SalaryOf(a)>>
      [] OTHER -> <<0>>

\* a sorts strictly before b; sort reads a NaN from the comparator as 0.
Before(a, b, key) ==
    LET v == Compare(a, b, key) IN v # NaN /\ v[1] < 0

\* x put into a sorted sequence before the elements that do not sort before
\* it: an insertion that reverses equal keys, a mutant.
RECURSIVE InsertFirst(_, _, _)
InsertFirst(seq, x, key) ==
    IF seq = <<>> THEN <<x>>
    ELSE IF Before(Head(seq), x, key)
         THEN <<Head(seq)>> \o InsertFirst(Tail(seq), x, key)
         ELSE <<x>> \o seq

\* x put into a sorted sequence behind every element it does not sort before.
RECURSIVE Insert(_, _, _)
Insert(seq, x, key) ==
    IF seq = <<>> THEN <<x>>
    ELSE IF Before(x, Head(seq), key)
         THEN <<x>> \o seq
         ELSE <<Head(seq)>> \o Insert(Tail(seq), x, key)

\* Array.prototype.sort(comparator), a stable sort, on a copy of the list.
RECURSIVE Sorted(_, _)
Sorted(list, key) ==
    IF list = <<>> THEN <<>>
    ELSE Insert(Sorted(SubSeq(list, 1, Len(list) - 1), key), list[Len(list)], key)

sortedJobs == Sorted(jobs, sortBy)

\* onChange of the sort select, rendered while there are jobs.
SetSortBy(key) ==
    /\ Len(jobs) > 0
    /\ sortBy' = key
    /\ UNCHANGED <<filterTags, expandedJobs, downloads>>
    /\ UNCHANGED <<themeVars, filterVars, pageVars>>

(***************************************************************************)
(* Results view: filtering                                                 *)
(***************************************************************************)

UpperCase == <<"A", "B", "C", "D", "E", "F", "G", "H", "I", "J", "K", "L", "M",
               "N", "O", "P", "Q", "R", "S", "T", "U", "V", "W", "X", "Y", "Z">>
LowerCase == <<"a", "b", "c", "d", "e", "f", "g", "h", "i", "j", "k", "l", "m",
               "n", "o", "p", "q", "r", "s", "t", "u", "v", "w", "x", "y", "z">>

\* String.prototype.toLowerCase
ToLowerCase(s) ==
    [i \in 1..Len(s) |->
        IF \E n \in 1..Len(UpperCase) : UpperCase[n] = s[i]
        THEN LowerCase[CHOOSE n \in 1..Len(UpperCase) : UpperCase[n] = s[i]]
        ELSE s[i]]

\* String.prototype.includes
StringIncludes(s, t) ==
    \E i \in 0..(Len(s) - Len(t)) : SubSeq(s, i + 1, i + Len(t)) = t

\* The test of one filter tag against one of the job's strings.
TagIn(tag, text) == StringIncludes(ToLowerCase(text), ToLowerCase(tag))

\* The filter callback reading the job's tags only: a mutant.
KeptByTagsOnly(job, tags) ==
    \/ Len(tags) = 0
    \/ \E t \in 1..Len(tags) : \E n \in 1..Len(job.tags) : TagIn(tags[t], job.tags[n])

\* The filter callback without its test for an empty tag list: a mutant.
KeptBySomeTag(job, tags) ==
    \E t \in 1..Len(tags) :
        \/ \E n \in 1..Len(job.tags) : TagIn(tags[t], job.tags[n])
        \/ \E n \in 1..Len(job.matched_keywords) :
              TagIn(tags[t], job.matched_keywords[n])

\* The filter callback: every job passes an empty tag list.
Kept(job, tags) ==
    \/ Len(tags) = 0
    \/ \E t \in 1..Len(tags) :
          \/ \E n \in 1..Len(job.tags) : TagIn(tags[t], job.tags[n])
          \/ \E n \in 1..Len(job.matched_keywords) :
                TagIn(tags[t], job.matched_keywords[n])

\* Array.prototype.filter on the sorted list.
Filtered(list, tags) == SelectSeq(list, LAMBDA job : Kept(job, tags))

filteredJobs == Filtered(sortedJobs, filterTags)

(***************************************************************************)
(* Results view: expansion and export                                      *)
(***************************************************************************)

\* toggleJobExpansion(index), from the card at index of the displayed list;
\* the cards are rendered while there are jobs.
ToggleJobExpansion(index) ==
    /\ Len(jobs) > 0
    /\ index \in 0..(Len(filteredJobs) - 1)
    /\ expandedJobs' = IF index \in expandedJobs
                       THEN expandedJobs \ {index}
                       ELSE expandedJobs \cup {index}
    /\ UNCHANGED <<sortBy, filterTags, downloads>>
    /\ UNCHANGED <<themeVars, filterVars, pageVars>>

\* The decimal digits of a natural number.
RECURSIVE NumberToString(_)
NumberToString(n) ==
    IF n < 10 THEN <<Digits[n + 1]>>
    ELSE NumberToString(n \div 10) \o <<Digits[(n % 10) + 1]>>

\* Math.round(relevance_score * 100) of a score in thousandths; the rounding
\* error of the binary product is not modelled.
RoundPercent(score) == (score + 5) \div 10

\* Array.prototype.join
RECURSIVE Join(_, _)
Join(seq, sep) ==
    IF seq = <<>> THEN <<>>
    ELSE IF Len(seq) = 1 THEN seq[1]
    ELSE seq[1] \o sep \o Join(Tail(seq), sep)

headers ==
    << <<"P", "o", "s", "i", "t", "i", "o", "n">>,
       <<"C", "o", "m", "p", "a", "n", "y">>,
       <<"S", "a", "l", "a", "r", "y">>,
       <<"L", "o", "c", "a", "t", "i", "o", "n">>,
       <<"D", "a", "t", "e", " ", "P", "o", "s", "t", "e", "d">>,
       <<"R", "e", "l", "e", "v", "a", "n", "c", "e">>,
       <<"T", "a", "g", "s">>,
       <<"M", "a", "t", "c", "h", "e", "d", " ", "K", "e", "y", "w", "o", "r", "d", "s">> >>

\* The row of one job.
Row(job) ==
    << job.position, job.company, job.salary, job.location, job.date_posted,
       NumberToString(RoundPercent(job.relevance_score)) \o <<"%">>,
       Join(job.tags, <<";", " ">>),
       Join(job.matched_keywords, <<";", " ">>) >>

\* '"' + (v || '') + '"'
Quoted(v) == <<"\"">> \o v \o <<"\"">>

\* The line of one row.
Line(row) == Join([f \in 1..Len(row) |-> Quoted(row[f])], <<",">>)

\* csvContent of a job list.
CsvContent(list) ==
    Join([i \in 1..(Len(list) + 1) |->
            IF i = 1 THEN Line(headers) ELSE Line(Row(list[i - 1]))],
         <<"\n">>)

\* handleExport('csv'): the document is handed to the browser as jobs.csv.
HandleExport ==
    /\ IF Len(jobs) = 0
       THEN UNCHANGED downloads
       ELSE downloads' = Append(downloads, CsvContent(jobs))
    /\ UNCHANGED <<sortBy, filterTags, expandedJobs>>
    /\ UNCHANGED <<themeVars, filterVars, pageVars>>

(***************************************************************************)
(* Specifications                                                          *)
(***************************************************************************)

\* How a fetch settles: a success status, another status, or a rejection.
Outcomes == {"ok", "http_error", "network_error"}

\* Bounds of the model: live progress timers and pending reset timeouts.
MaxIntervals == 2
MaxTimeouts == 2

\* The ThemeProvider before its mount effects, with the declared defaults.
ThemeAtRest ==
    /\ defaultTheme = "system"
    /\ theme = "system"
    /\ resolvedTheme = "light"
    /\ classList = {}
    /\ storage = null
    /\ prefersDark = FALSE
    /\ mounted = FALSE
    /\ effectDue = FALSE

\* ---- ThemeProvider alone ----
NextTheme ==
    \/ MountEffects
    \/ ThemeEffect
    \/ ToggleTheme
    \/ AmbientChange

InitThemeProvider == InitTheme /\ InitPage

SpecTheme == InitThemeProvider /\ [][NextTheme]_vars

\* ---- The page as the user drives it ----
Init == ThemeAtRest /\ InitPage

\* The files and the criteria text the user supplies.
UserFiles == {NoFile, FileOf(PdfType, MaxFileSize), FileOf("text/plain", MaxFileSize)}
UserText == {<<"a">>}
UserCriteria == {"skills"}

\* An upload may start while the model's timer bounds leave room for it.
UploadRoom ==
    /\ intervals < MaxIntervals
    /\ timeouts + Len(upload) < MaxTimeouts

Next ==
    \/ \E o \in Outcomes : HealthSettles(o)
    \/ \E f \in UserFiles : SelectFile(f)
    \/ UploadRoom /\ ClickUpload
    \/ ClickSearch
    \/ \E i \in 1..Len(upload), o \in Outcomes : UploadFetchSettles(i, o)
    \/ \E i \in 1..Len(upload), b \in UploadBodies : UploadJsonSettles(i, b)
    \/ \E i \in 1..Len(upload) : UploadJsonRejects(i)
    \/ \E i \in 1..Len(search), o \in Outcomes : SearchFetchSettles(i, o)
    \/ \E i \in 1..Len(search), b \in SearchBodies : SearchJsonSettles(i, b)
    \/ \E i \in 1..Len(search) : SearchJsonRejects(i)
    \/ DismissError
    \/ DismissSuccess
    \/ ProgressReset
    \/ \E k \in UserCriteria, t \in UserText : TypeInput(k, t)
    \/ \E k \in UserCriteria : ClickAdd(k)
    \/ \E k \in UserCriteria : PressEnter(k)
    \/ \E k \in UserCriteria : \E i \in 1..Len(searchFilters[k]) : ClickRemove(k, i)

Spec == Init /\ [][Next]_vars

\* ---- The handlers called in any state ----
\* The handlers are entered whatever the buttons' disabled attributes say, so
\* that every branch of their validations is taken; a request is issued only
\* while none of its kind is in flight.
HandlerText == <<"a">>
HandlerUploadBody == Body("upload", TRUE, <<JobA>>, "R1")
HandlerSearchBody == Body("search", TRUE, <<JobB, JobA>>, null)

NextHandlers ==
    \/ \E f \in Files \cup {NoFile} : SelectFile(f)
    \/ /\ UploadValidation(selectedFile) = null => (UploadRoom /\ upload = <<>>)
       /\ HandleFileUpload
    \/ /\ ~NoCriteria(searchFilters) => search = <<>>
       /\ HandleManualSearch
    \/ \E i \in 1..Len(upload), o \in Outcomes : UploadFetchSettles(i, o)
    \/ \E i \in 1..Len(upload) : UploadJsonSettles(i, HandlerUploadBody)
    \/ \E i \in 1..Len(search), o \in Outcomes : SearchFetchSettles(i, o)
    \/ \E i \in 1..Len(search) : SearchJsonSettles(i, HandlerSearchBody)
    \/ ProgressReset
    \/ \E k \in CriteriaKeys : AddToSearchFilter(k, HandlerText)
    \/ \E k \in CriteriaKeys : RemoveFromSearchFilter(k, HandlerText)

SpecHandlers == Init /\ [][NextHandlers]_vars

\* ---- The page under fair scheduling ----
\* Every fetch and every response.json() settles: it resolves or rejects.
UploadSettles ==
    \/ \E i \in 1..Len(upload), o \in Outcomes : UploadFetchSettles(i, o)
    \/ \E i \in 1..Len(upload), b \in UploadBodies : UploadJsonSettles(i, b)
    \/ \E i \in 1..Len(upload) : UploadJsonRejects(i)

SearchSettles ==
    \/ \E i \in 1..Len(search), o \in Outcomes : SearchFetchSettles(i, o)
    \/ \E i \in 1..Len(search), b \in SearchBodies : SearchJsonSettles(i, b)
    \/ \E i \in 1..Len(search) : SearchJsonRejects(i)

FairSpec == Spec /\ WF_vars(UploadSettles) /\ WF_vars(SearchSettles)

\* ---- The filter builder alone ----
\* The values passed to addToSearchFilter and removeFromSearchFilter: empty,
\* blank, plain, padded, and differing from another in case only.
FilterInputs == {<<>>, <<" ">>, <<"a">>, <<" ", "a", " ">>, <<"A">>}

NextFilter ==
    \/ \E k \in CriteriaKeys, v \in FilterInputs : AddToSearchFilter(k, v)
    \/ \E k \in CriteriaKeys, v \in FilterInputs : RemoveFromSearchFilter(k, v)

SpecFilter == Init /\ [][NextFilter]_vars

\* ---- The sort, filter and export pipeline as a function of its inputs ----
\* The job lists are the lists of at most MaxJobs different jobs; the tag
\* lists hold no tag, a tag in another case than the job's, a tag that occurs
\* nowhere, that tag before one that occurs, and the empty tag.
MaxJobs == 4
MaxDownloads == 1

PipelineJobs == {JobA, JobB, JobC, JobD, JobE}
PipelineLists ==
    {l \in UNION {[1..n -> PipelineJobs] : n \in 0..MaxJobs} :
        \A i, j \in 1..Len(l) : l[i] = l[j] => i = j}
TagLists ==
    { <<>>,
      << <<"p", "Y">> >>,
      << <<"z">> >>,
      << <<"z">>, <<"G", "O">> >>,
      << <<>> >> }

\* The page after a search whose response carried the list l, with the sort
\* key and the filter tag list given.
InitPipeline ==
    \E l \in PipelineLists, k \in SortKeys, t \in TagLists :
        /\ ThemeAtRest
        /\ isLoading = FALSE
        /\ uploadProgress = 0
        /\ jobs = l
        /\ resumeInfo = null
        /\ error = null
        /\ success = MsgSearched
        /\ selectedFile = NoFile
        /\ searchFilters = [skills |-> << <<"a">> >>, technologies |-> <<>>,
                            job_titles |-> <<>>, industries |-> <<>>, limit |-> 20]
        /\ currentInput = <<>>
        /\ currentInputType = "skills"
        /\ upload = <<>>
        /\ search = <<>>
        /\ health = "done"
        /\ data = Body("search", TRUE, l, null)
        /\ intervals = 0
        /\ timeouts = 0
        /\ sortBy = k
        /\ filterTags = t
        /\ expandedJobs = {}
        /\ downloads = <<>>

NextPipeline ==
    \/ \E k \in SortKeys : SetSortBy(k)
    \/ Len(downloads) < MaxDownloads /\ HandleExport

SpecPipeline == InitPipeline /\ [][NextPipeline]_vars

\* ---- The upload with its progress timers ----
\* A PDF of admissible size is selected and uploaded, again and again, and
\* the interval and timeout callbacks run in any order with the settling of
\* the request.
NextProgress ==
    \/ SelectFile(FileOf(PdfType, MaxFileSize))
    \/ UploadRoom /\ ClickUpload
    \/ ProgressTick
    \/ ProgressReset
    \/ \E i \in 1..Len(upload), o \in Outcomes : UploadFetchSettles(i, o)
    \/ \E i \in 1..Len(upload) : UploadJsonSettles(i, HandlerUploadBody)
    \/ \E i \in 1..Len(upload) : UploadJsonRejects(i)

SpecProgress == Init /\ [][NextProgress]_vars

\* ---- The results view as the user drives it ----
\* The user enters a skill and searches; every response carries one of the
\* lists below; the user sorts, expands and collapses cards, and exports.
ViewLists == {<<>>, <<JobA, JobB>>, <<JobB, JobC, JobA>>}
ViewBodies == {Body("search", TRUE, l, null) : l \in ViewLists}

NextView ==
    \/ \E t \in UserText : TypeInput("skills", t)
    \/ ClickAdd("skills")
    \/ ClickSearch
    \/ \E i \in 1..Len(search), o \in Outcomes : SearchFetchSettles(i, o)
    \/ \E i \in 1..Len(search), b \in ViewBodies : SearchJsonSettles(i, b)
    \/ \E k \in SortKeys : SetSortBy(k)
    \/ \E index \in 0..(Len(filteredJobs) - 1) : ToggleJobExpansion(index)
    \/ Len(jobs) > 0 /\ Len(downloads) < MaxDownloads /\ HandleExport

SpecView == Init /\ [][NextView]_vars

(***************************************************************************)
(* Claims about the ThemeProvider (SpecTheme)                              *)
(***************************************************************************)

\* C1: the resolved value is dark or light in every state, and each run of
\* the effect for a preference P in {dark, light, system} sets it to the
\* ambient signal when P = system and to P otherwise.
C1_ResolvedValue ==
    /\ resolvedTheme \in ResolvedThemes
    /\ [][ /\ resolvedTheme' \in ResolvedThemes
           /\ (ThemeEffect /\ theme \in Theme) =>
                resolvedTheme' = (IF theme = "system"
                                  THEN (IF prefersDark THEN "dark" ELSE "light")
                                  ELSE theme) ]_vars

C3_InitialLoad ==
    [][ /\ (~mounted /\ mounted') =>
              theme' = (IF storage \in Theme THEN storage ELSE defaultTheme)
        /\ ThemeSettled' => storage' = theme' ]_vars

(***************************************************************************)
(* Claims about the requests of the page (Spec)                            *)
(***************************************************************************)

\* C5: at most one upload request is in flight, and while one is in flight
\* the upload button is disabled.
C5_OneUpload ==
    /\ Len(upload) <= 1
    /\ upload # <<>> => UploadDisabled

\* C5 witness: an upload is in flight while a file is selected, so that only
\* the loading flag keeps the button disabled.
C5_Witness ==
    /\ Len(upload) = 1
    /\ selectedFile # NoFile
    /\ UploadDisabled

\* C6 as stated: while a request of one kind is outstanding, a request of the
\* other kind can be started.
C6_Independent ==
    /\ (upload # <<>> /\ search = <<>>) => ~SearchDisabled
    /\ (search # <<>> /\ upload = <<>> /\ selectedFile # NoFile) => ~UploadDisabled

\* C6 amended: upload and search share the loading flag, so at most one
\* request of either kind is outstanding and both buttons are disabled
\* while it is.
C6_MutuallyExclusive ==
    /\ Len(upload) + Len(search) <= 1
    /\ (upload # <<>> \/ search # <<>>) => (UploadDisabled /\ SearchDisabled)

\* C6 witness: an upload is outstanding, search criteria are present, and the
\* search button is disabled.
C6_Witness ==
    /\ upload # <<>>
    /\ search = <<>>
    /\ ~NoCriteria(searchFilters)
    /\ SearchDisabled

\* C7 as stated: the job list and the resume profile both stem from the most
\* recent successful response.
C7_SameResponse ==
    data.from # "none" =>
        /\ jobs = JobsOf(data)
        /\ resumeInfo = ResumeOf(data)

\* C7 amended: the job list is the one of the most recent successful
\* response; the resume profile is the one of that response when it answered
\* an upload, and is carried over when it answered a search.
C7_JobsReplaced ==
    /\ data.from # "none" => jobs = JobsOf(data)
    /\ data.from = "upload" => resumeInfo = ResumeOf(data)
    /\ data.from = "none" => (jobs = <<>> /\ resumeInfo = null)

\* C7 witness: a search response has replaced the job list of an earlier
\* upload, whose resume profile is still displayed.
C7_Witness ==
    /\ data.from = "search"
    /\ jobs = <<JobB, JobA>>
    /\ resumeInfo = "R2"
    /\ success = MsgSearched

\* A step of handleManualSearch: its synchronous part or one of its
\* continuations.
SearchStep ==
    \/ HandleManualSearch
    \/ \E i \in 1..Len(search), o \in Outcomes : SearchFetchSettles(i, o)
    \/ \E i \in 1..Len(search), b \in SearchBodies : SearchJsonSettles(i, b)
    \/ \E i \in 1..Len(search) : SearchJsonRejects(i)

\* C8: no step of handleManualSearch changes the resume profile, and its
\* success replaces the job list by the job sequence of the response, empty
\* when the field is missing.
C8_SearchKeepsResume ==
    [][ /\ SearchStep => resumeInfo' = resumeInfo
        /\ \A i \in 1..Len(search), b \in SearchBodies :
              SearchJsonSettles(i, b) =>
                  jobs' = (IF b.hasJobs THEN b.jobs ELSE <<>>) ]_vars

\* C8 witness: a search whose response had no jobs field has succeeded while
\* the resume profile of an earlier upload was displayed.
C8_Witness ==
    /\ data = Body("search", FALSE, <<>>, null)
    /\ jobs = <<>>
    /\ resumeInfo = "R1"
    /\ success = MsgSearched
    /\ search = <<>>

(***************************************************************************)
(* Claims about the validations (SpecHandlers)                             *)
(***************************************************************************)

\* A step that issues no request and leaves the loading flag, the job list
\* and the resume profile alone.
NothingIssued ==
    UNCHANGED <<upload, search, health, isLoading, jobs, resumeInfo>>

\* C4: a failed validation shows the message of the first failing check
\* (file present, then type exactly application/pdf, then size at most
\* 10 MiB), issues no request and leaves loading flag, jobs and profile
\* alone; a PDF of at most 10 MiB is submitted; a search is rejected exactly
\* when all four criteria sequences are empty.
C4_ValidationFailure ==
    [][ /\ Cardinality({MsgNoFile, MsgNotPdf, MsgTooLarge, MsgNoCriteria}) = 4
        /\ HandleFileUpload =>
             LET f == selectedFile IN
             /\ f = NoFile => (error' = MsgNoFile /\ NothingIssued)
             /\ (f # NoFile /\ f[1].type # "application/pdf") =>
                    (error' = MsgNotPdf /\ NothingIssued)
             /\ (f # NoFile /\ f[1].type = "application/pdf"
                            /\ f[1].size > 10 * 1024 * 1024) =>
                    (error' = MsgTooLarge /\ NothingIssued)
             /\ (f # NoFile /\ f[1].type = "application/pdf"
                            /\ f[1].size <= 10 * 1024 * 1024) =>
                    (Len(upload') = Len(upload) + 1 /\ isLoading')
        /\ HandleManualSearch =>
             IF \A k \in CriteriaKeys : searchFilters[k] = <<>>
             THEN error' = MsgNoCriteria /\ NothingIssued
             ELSE Len(search') = Len(search) + 1 /\ isLoading' ]_vars

\* C4 witness: an oversized file that is no PDF was rejected for its type,
\* and nothing was issued.
C4_Witness ==
    /\ selectedFile = FileOf("text/plain", MaxFileSize + 1)
    /\ error = MsgNotPdf
    /\ upload = <<>>
    /\ search = <<>>
    /\ ~isLoading
    /\ data = NoData

(***************************************************************************)
(* Claims about failures (FairSpec)                                        *)
(***************************************************************************)

\* A request ends in failure: a rejected fetch, a non-success status, or a
\* rejected response.json().
RequestFails ==
    \/ \E i \in 1..Len(upload), o \in {"http_error", "network_error"} :
          UploadFetchSettles(i, o)
    \/ \E i \in 1..Len(upload) : UploadJsonRejects(i)
    \/ \E i \in 1..Len(search), o \in {"http_error", "network_error"} :
          SearchFetchSettles(i, o)
    \/ \E i \in 1..Len(search) : SearchJsonRejects(i)

\* C9: a failed request sets a failure message, keeps the job list and the
\* resume profile, and clears the loading flag; the flag is set only while a
\* request is in flight, and once set it is eventually cleared.
C9_FailureLeavesUsable ==
    /\ [][ RequestFails =>
             /\ error' # null
             /\ jobs' = jobs
             /\ resumeInfo' = resumeInfo
             /\ ~isLoading' ]_vars
    /\ [](isLoading => (upload # <<>> \/ search # <<>>))
    /\ (isLoading ~> ~isLoading)

\* C9 witness: an upload has failed with a non-success status while results
\* of an earlier request were displayed; they still are, and the buttons are
\* enabled again.
C9_Witness ==
    /\ error = MsgParseFailed
    /\ ~isLoading
    /\ upload = <<>>
    /\ jobs = <<JobA>>
    /\ resumeInfo = "R1"
    /\ ~UploadDisabled
    /\ ~SearchDisabled

(***************************************************************************)
(* Claims about the filter builder (SpecFilter)                            *)
(***************************************************************************)

\* t is v without its leading and trailing whitespace.
IsTrimOf(t, v) ==
    \E i \in 1..(Len(v) + 1), j \in 0..Len(v) :
        /\ t = SubSeq(v, i, j)
        /\ \A n \in 1..Len(v) : (n < i \/ n > j) => v[n] \in Whitespace
        /\ t # <<>> => (t[1] \notin Whitespace /\ t[Len(t)] \notin Whitespace)

\* No empty, untrimmed or repeated value in any criteria sequence.
CriteriaClean(f) ==
    \A k \in CriteriaKeys :
        /\ \A n \in 1..Len(f[k]) :
              /\ f[k][n] # <<>>
              /\ f[k][n][1] \notin Whitespace
              /\ f[k][n][Len(f[k][n])] \notin Whitespace
        /\ \A m, n \in 1..Len(f[k]) : f[k][m] = f[k][n] => m = n

\* C10: addToSearchFilter(type, value) appends trim(value) to the named
\* sequence when it is non-empty and not yet present, and changes nothing
\* otherwise; every criteria sequence stays free of empty, untrimmed and
\* repeated values.
C10_AddAppendsTrimmedOnce ==
    /\ CriteriaClean(searchFilters)
    /\ [][ /\ CriteriaClean(searchFilters')
           /\ \A k \in CriteriaKeys, v \in FilterInputs :
                AddToSearchFilter(k, v) =>
                  LET old == searchFilters[k]
                      t == CHOOSE x \in {SubSeq(v, i, j) :
                                          i \in 1..(Len(v) + 1), j \in 0..Len(v)} :
                              IsTrimOf(x, v)
                  IN  /\ searchFilters'[k] =
                           (IF t # <<>> /\ \A n \in 1..Len(old) : old[n] # t
                            THEN old \o <<t>>
                            ELSE old)
                      /\ \A k2 \in CriteriaKeys \ {k} :
                            searchFilters'[k2] = searchFilters[k2]
                      /\ searchFilters'.limit = searchFilters.limit ]_vars

\* C10 witness: two values that differ in case only are both in skills, in
\* the order of their insertion, and another sequence holds one of them.
C10_Witness ==
    /\ searchFilters.skills = << <<"A">>, <<"a">> >>
    /\ searchFilters.technologies = << <<"a">> >>
    /\ searchFilters.job_titles = <<>>

\* C11: removeFromSearchFilter(type, value) deletes the first exact match of
\* value from the named sequence and nothing else: the sequence shrinks by
\* exactly one element and the others keep their order; when value does not
\* occur the sequence is unchanged; the other three sequences and the limit
\* are never changed.
C11_RemoveDeletesFirstMatch ==
    [][ \A k \in CriteriaKeys, v \in FilterInputs :
          RemoveFromSearchFilter(k, v) =>
            LET old == searchFilters[k]
                hits == {n \in 1..Len(old) : old[n] = v}
            IN  /\ IF hits = {}
                   THEN searchFilters'[k] = old
                   ELSE LET first == CHOOSE n \in hits : \A m \in hits : n <= m
                        IN  /\ Len(searchFilters'[k]) = Len(old) - 1
                            /\ \A n \in 1..(Len(old) - 1) :
                                  searchFilters'[k][n] =
                                    (IF n < first THEN old[n] ELSE old[n + 1])
                /\ \A k2 \in CriteriaKeys \ {k} :
                      searchFilters'[k2] = searchFilters[k2]
                /\ searchFilters'.limit = searchFilters.limit ]_vars

\* C11 witness: skills holds two values of which the first can be removed, and
\* technologies holds the same value, which that removal must leave alone.
C11_Witness ==
    /\ searchFilters.skills = << <<"a">>, <<"A">> >>
    /\ searchFilters.technologies = << <<"a">> >>
    /\ searchFilters.industries = << <<"A">> >>

(***************************************************************************)
(* Claims about the results view (SpecPipeline)                            *)
(***************************************************************************)

\* The number of places at which x stands in seq.
Occurrences(seq, x) == Cardinality({n \in 1..Len(seq) : seq[n] = x})

RECURSIVE Power10(_)
Power10(n) == IF n = 0 THEN 1 ELSE 10 * Power10(n - 1)

\* The integer formed by the digits of a string, 0 when it has none: every
\* digit weighs ten to the number of digits behind it.
RECURSIVE DigitSum(_, _)
DigitSum(s, places) ==
    IF places = {} THEN 0
    ELSE LET n == CHOOSE p \in places : TRUE
         IN  DigitValue(s[n])
               * Power10(Cardinality({m \in 1..Len(s) : m > n /\ IsDigit(s[m])}))
             + DigitSum(s, places \ {n})

IntegerOfDigits(s) == DigitSum(s, {n \in 1..Len(s) : IsDigit(s[n])})

\* The key a job is ordered by.
SortKeyOf(job, key) ==
    IF key = "salary" THEN IntegerOfDigits(job.salary) ELSE job.relevance_score

\* C12: sorted by relevance_score or by salary, the sorted view is a
\* permutation of the job list in descending order of the key (the score, or
\* the integer formed by the digits of the salary, 0 without a digit), and
\* jobs with equal keys keep the order they have in the job list; scores
\* [A 0.9, B 0.3, C 0.9, D 0.1] give [A, C, B, D] and salaries
\* ["$50,000", "abc", "$120,000"] give [$120,000, $50,000, abc]; choosing a
\* sort key leaves the job list as it is.
C12_SortedStableDescending ==
    /\ [](sortBy \in {"relevance_score", "salary"} =>
           LET sorted == sortedJobs
               keys == [n \in 1..Len(sorted) |-> SortKeyOf(sorted[n], sortBy)]
           IN  /\ Len(sorted) = Len(jobs)
               /\ \A n \in 1..Len(jobs) :
                     Occurrences(sorted, jobs[n]) = Occurrences(jobs, jobs[n])
               /\ \A i, j \in 1..Len(sorted) :
                     i < j =>
                       /\ keys[i] >= keys[j]
                       /\ keys[i] = keys[j]
                            => \E m, n \in 1..Len(jobs) :
                                  /\ m < n
                                  /\ jobs[m] = sorted[i]
                                  /\ jobs[n] = sorted[j])
    /\ [](/\ Sorted(<<JobA, JobB, JobC, JobD>>, "relevance_score")
               = <<JobA, JobC, JobB, JobD>>
          /\ Sorted(<<JobA, JobB, JobC>>, "salary") = <<JobC, JobA, JobB>>)
    /\ [][(\E k \in SortKeys : SetSortBy(k)) => jobs' = jobs]_vars

\* C12 witness: sorted by salary, A and D have the same salary and stand in
\* the order of the job list, behind C and before B, which has no digit.
C12_Witness ==
    /\ jobs = <<JobA, JobB, JobC, JobD>>
    /\ sortBy = "salary"
    /\ sortedJobs = <<JobC, JobA, JobD, JobB>>

\* c and d are the same character or the two cases of one letter.
SameLetter(c, d) ==
    \/ c = d
    \/ \E n \in 1..Len(UpperCase) : {c, d} = {UpperCase[n], LowerCase[n]}

\* t stands somewhere in s, the case of the letters disregarded.
SubstringIgnoringCase(t, s) ==
    \E at \in 0..(Len(s) - Len(t)) :
        \A n \in 1..Len(t) : SameLetter(s[at + n], t[n])

\* Some filter tag stands in some tag or in some matched keyword of the job.
SomeTagMatches(job, tags) ==
    \E t \in 1..Len(tags) :
        \/ \E n \in 1..Len(job.tags) : SubstringIgnoringCase(tags[t], job.tags[n])
        \/ \E n \in 1..Len(job.matched_keywords) :
              SubstringIgnoringCase(tags[t], job.matched_keywords[n])

\* C13: with an empty filter tag list the filtered view is the sorted list;
\* otherwise a job is kept if and only if some filter tag is a
\* case-insensitive substring of one of its tags or matched keywords; the
\* filtered view is a subsequence of the sorted list, and it is empty when no
\* tag matches any job.
C13_FilteredKeepsMatches ==
    LET sorted == sortedJobs
        filtered == Filtered(sorted, filterTags)
    IN  /\ filterTags = <<>> => filtered = sorted
        /\ filterTags # <<>> =>
             \A n \in 1..Len(sorted) :
                Occurrences(filtered, sorted[n]) =
                  (IF SomeTagMatches(sorted[n], filterTags)
                   THEN Occurrences(sorted, sorted[n])
                   ELSE 0)
        /\ \E at \in [1..Len(filtered) -> 1..Len(sorted)] :
              /\ \A n \in 1..Len(filtered) : filtered[n] = sorted[at[n]]
              /\ \A m, n \in 1..Len(filtered) : m < n => at[m] < at[n]
        /\ (filterTags # <<>>
              /\ \A n \in 1..Len(jobs) : ~SomeTagMatches(jobs[n], filterTags))
             => filtered = <<>>

\* C13 witness: the tag "pY" keeps A for its tag "Python" and C for its
\* matched keyword "PYTHON", in the sorted order, and drops B.
C13_Witness ==
    /\ jobs = <<JobB, JobC, JobA>>
    /\ sortBy = "salary"
    /\ filterTags = << <<"p", "Y">> >>
    /\ filteredJobs = <<JobC, JobA>>

\* The lines of a document: the pieces between its line breaks.
RECURSIVE SplitLines(_)
SplitLines(doc) ==
    IF \A n \in 1..Len(doc) : doc[n] # "\n" THEN <<doc>>
    ELSE LET at == CHOOSE n \in 1..Len(doc) :
                      doc[n] = "\n" /\ \A m \in 1..(n - 1) : doc[m] # "\n"
         IN  <<SubSeq(doc, 1, at - 1)>> \o SplitLines(SubSeq(doc, at + 1, Len(doc)))

\* A line of double-quoted fields begins and ends with a double quote.
QuotedLine(line) == Len(line) >= 2 /\ line[1] = "\"" /\ line[Len(line)] = "\""

\* C14: handleExport downloads nothing for an empty job list; for N >= 1 jobs
\* the document has exactly N + 1 lines, whatever the job fields contain: the
\* header line and, in the order of the job list, one line of double-quoted
\* fields per job.
C14_ExportLines ==
    /\ jobs = <<>> => downloads = <<>>
    /\ \A d \in 1..Len(downloads) :
          LET lines == SplitLines(downloads[d])
          IN  /\ Len(lines) = Len(jobs) + 1
              /\ \A n \in 1..Len(lines) : QuotedLine(lines[n])
              /\ \A n \in 1..Len(jobs) :
                    SubSeq(lines[n + 1], 1, Len(jobs[n].position) + 2)
                      = Quoted(jobs[n].position)

(***************************************************************************)
(* Claims about the upload progress (SpecProgress)                         *)
(***************************************************************************)

\* The upload request is outstanding: its fetch has not settled.
UploadPending == \E i \in 1..Len(upload) : upload[i] = "fetch"

\* C15 as stated: while the upload request is outstanding the progress
\* indicator only increases and stays strictly below 90.
C15_StrictlyBelowNinety ==
    /\ [](UploadPending => uploadProgress < 90)
    /\ [][(UploadPending /\ UploadPending') => uploadProgress' >= uploadProgress]_vars

\* C15 amended: while the upload request is outstanding the progress
\* indicator never exceeds 90, which it reaches with the ninth tick and then
\* keeps; it never decreases except that the reset timeout of an earlier
\* upload, firing during the request, sets it to 0.
C15_AtMostNinety ==
    /\ [](UploadPending => uploadProgress <= 90)
    /\ [][(UploadPending /\ UploadPending') =>
            \/ uploadProgress' >= uploadProgress
            \/ ProgressReset /\ uploadProgress' = 0]_vars
    /\ [][(UploadPending /\ ProgressTick) =>
            uploadProgress' = (IF uploadProgress >= 80 THEN 90
                               ELSE uploadProgress + 10)]_vars

\* C15 witness: the request is outstanding and the indicator stands at 90.
C15_Witness == UploadPending /\ uploadProgress = 90

\* C16: whatever the outcome of a validated upload, when its request
\* resolves the progress timer is torn down and the indicator is set to 100;
\* after the delay the indicator is reset to 0 and, with no timer left to
\* tick, stays 0 until the next upload is started.
C16_TimerTornDown ==
    /\ [](~UploadPending => intervals = 0)
    /\ [][\A i \in 1..Len(upload), o \in Outcomes :
            UploadFetchSettles(i, o) =>
              /\ intervals' = intervals - 1
              /\ uploadProgress' = 100]_vars
    /\ []((upload = <<>> /\ timeouts = 0) => uploadProgress = 0)

(***************************************************************************)
(* Claims about the results view as the user drives it (SpecView)          *)
(***************************************************************************)

\* C17: whenever the displayed list changes, by a new response or by a new
\* sort key, no index expanded under the previous list remains in the
\* expanded set.
C17_ExpansionInvalidated ==
    [][Filtered(Sorted(jobs', sortBy'), filterTags') # filteredJobs
         => expandedJobs' \cap expandedJobs = {}]_vars

C18_NeverBoth == ~(error # null /\ success # null)

\* C18 amended: the two notifications are independent. No step changes both;
\* a request that starts clears the error and keeps the success message; the
\* success message is cleared by its close button only.
C18_Independent ==
    /\ [][error' # error => success' = success]_vars
    /\ [][success' # success => error' = error]_vars
    /\ [][(Len(upload') > Len(upload) \/ Len(search') > Len(search))
            => (error' = null /\ success' = success)]_vars
    /\ [][(success # null /\ success' = null) => DismissSuccess]_vars

\* C18 witness: the success message of an upload is displayed together with
\* the error message of a search started without criteria.
C18_Witness == success = MsgParsed /\ error = MsgNoCriteria

====
